---- MODULE Spec2Model ----
(***************************************************************************)
(* A model of DefinitionGenerator (src/src/DefinitionGenerator.ts): the    *)
(* generator that turns a definition config (models, security definitions) *)
(* and the documented http/httpApi events of serverless functions into an  *)
(* OpenAPI 3.0.0 document.                                                 *)
(*                                                                         *)
(* Representation.                                                         *)
(*  - A JS string that the code only copies or compares is a TLA+ string.  *)
(*    A string the code inspects or transforms (the event path, the event  *)
(*    method) is a sequence of one-character strings.                      *)
(*  - An input object has a fixed set of fields; an optional field holds   *)
(*    None (the property is absent / undefined) or Some(v).                *)
(*  - An emitted object is a function from its keys to its values, so that *)
(*    "the object has no field k" is  k \notin DOMAIN obj.                 *)
(*  - A JS array is a sequence.                                            *)
(*  - A call that can throw returns [raised, value]; raised is "none",     *)
(*    "Error" (the generator's own throw) or "TypeError" (the runtime's).  *)
(***************************************************************************)
EXTENDS Integers, Sequences, FiniteSets, TLC

VARIABLES
  config,      \* this.config: the generator's private copy of the definition config
  definition,  \* this.definition: the document under construction
  pc,          \* "constructed" | "parsed" | "reading" | "raised"
  nread,       \* number of events readFunctions has visited so far
  last         \* None, or Some of the event visited last and what it produced

vars == <<config, definition, pc, nread, last>>

-----------------------------------------------------------------------------
(* Optional values and thrown errors                                       *)

None == <<>>
Some(x) == <<x>>
Has(o) == Len(o) = 1
Get(o) == o[1]

\* JS truthiness of an optional boolean: absent and false are both falsy.
Truthy(o) == Has(o) /\ Get(o) = TRUE

EmptyObj == <<>>

Ok(v) == [raised |-> "none", value |-> v]
Raise(kind) == [raised |-> kind, value |-> EmptyObj]

-----------------------------------------------------------------------------
(* merge (./utils): the deep structural merge.  For two objects sharing a  *)
(* key the values are merged recursively; a key of one side only is kept;  *)
(* a scalar or array of the later side replaces the earlier one.           *)
(* JS tells an object from a scalar or an array by looking at the value;   *)
(* here the kind of the object being merged tells it: ValueKind(kind, k)   *)
(* is the kind of the object under key k, or "leaf" for a scalar or array. *)

ValueKind(kind, k) ==
  CASE kind = "definition"  -> IF k = "components" THEN "leaves" ELSE "leaf"
    [] kind = "paths"       -> "pathItem"      \* path -> path item
    [] kind = "pathItem"    -> "operation"     \* method -> operation
    [] kind = "operation"   -> IF k = "responses" THEN "responses"
                               ELSE IF k = "requestBody" THEN "requestBody"
                               ELSE "leaf"
    [] kind = "requestBody" -> IF k = "content" THEN "content" ELSE "leaf"
    [] kind = "responses"   -> "response"      \* status code -> response
    [] kind = "response"    -> IF k = "content" THEN "content"
                               ELSE IF k = "headers" THEN "headers"
                               ELSE "leaf"
    [] kind = "content"     -> "mediaType"     \* content-type -> media type
    [] kind = "mediaType"   -> "leaves"        \* schema: {$ref}, examples: {...}
    [] kind = "headers"     -> "header"        \* header name -> header
    [] kind = "header"      -> IF k = "schema" THEN "leaves" ELSE "leaf"
    [] kind = "leaves"      -> "leaf"          \* an object of scalars and arrays

RECURSIVE merge(_, _, _)
merge(kind, a, b) ==
  [k \in (DOMAIN a) \cup (DOMAIN b) |->
     IF k \in DOMAIN a /\ k \in DOMAIN b
     THEN IF ValueKind(kind, k) = "leaf" THEN b[k]
          ELSE merge(ValueKind(kind, k), a[k], b[k])
     ELSE IF k \in DOMAIN b THEN b[k]
     ELSE a[k]]

-----------------------------------------------------------------------------
(* cleanSchema: a copy of the schema without its $schema key.              *)

cleanSchema(schema) == [k \in (DOMAIN schema) \ {"$schema"} |-> schema[k]]

-----------------------------------------------------------------------------
(* getParametersFromConfig                                                 *)

ParameterTypes == <<"path", "query", "header", "cookie">>

\* the documentation field a parameter location is read from
paramBlock(documentationConfig, type) ==
  CASE type = "path"   -> documentationConfig.pathParams
    [] type = "query"  -> documentationConfig.queryParams
    [] type = "header" -> documentationConfig.requestHeaders
    [] type = "cookie" -> documentationConfig.cookieParams

\* parameter.explode ? parameter.explode : parameter.style === 'form'
explodeOf(parameter) ==
  IF Truthy(parameter.explode) THEN Get(parameter.explode)
  ELSE Get(parameter.style) = "form"

\* requiredOf without the override at location path: the declared flag is
\* used at every location
requiredAsDeclared(parameter, type) == Truthy(parameter.required)

\* parameter.required || false, then forced to true at location path
requiredOf(parameter, type) ==
  IF type = "path" THEN TRUE ELSE Truthy(parameter.required)

\* the body of the loop over one parameter block: one emitted parameter
parameterConfig(parameter, type) ==
  (IF Has(parameter.content) THEN "content" :> Get(parameter.content) ELSE EmptyObj)
  @@ (IF Has(parameter.examples) /\ Get(parameter.examples).isArray
      THEN "examples" :> Get(parameter.examples)
      ELSE EmptyObj)
  @@ (IF Has(parameter.schema)
      THEN "schema" :> cleanSchema(Get(parameter.schema))
      ELSE EmptyObj)
  @@ (IF Has(parameter.style)
      THEN ("style" :> Get(parameter.style)) @@ ("explode" :> explodeOf(parameter))
      ELSE EmptyObj)
  @@ (IF Has(parameter.deprecated)
      THEN "deprecated" :> Get(parameter.deprecated)
      ELSE EmptyObj)
  @@ (IF type = "query"
      THEN ("allowEmptyValue" :> Truthy(parameter.allowEmptyValue))
           @@ (IF Has(parameter.allowReserved)
               THEN "allowReserved" :> Truthy(parameter.allowReserved)
               ELSE EmptyObj)
      ELSE EmptyObj)
  @@ [name |-> parameter.name,
      in |-> type,
      description |-> IF Has(parameter.description)
                      THEN Get(parameter.description) ELSE "",
      required |-> requiredOf(parameter, type)]

parametersOfBlock(block, type) ==
  [i \in 1..Len(block) |-> parameterConfig(block[i], type)]

RECURSIVE parametersFrom(_, _)
parametersFrom(documentationConfig, t) ==
  IF t > Len(ParameterTypes) THEN <<>>
  ELSE LET type == ParameterTypes[t]
           block == paramBlock(documentationConfig, type)
       IN  (IF Has(block) THEN parametersOfBlock(Get(block), type) ELSE <<>>)
           \o parametersFrom(documentationConfig, t + 1)

getParametersFromConfig(documentationConfig) ==
  parametersFrom(documentationConfig, 1)

-----------------------------------------------------------------------------
(* getRequestBodiesFromConfig, attachExamples, getResponsesFromConfig,     *)
(* getResponseContent.  A model map (requestModels, responseModels) is the *)
(* sequence of its <<content-type, model name>> entries in key order.      *)

SchemaRef(name) == <<"#/components/schemas/", name>>

\* {schema: {$ref}} with the model's examples merged in when it has any
attachExamples(target, modelConfig) ==
  IF Has(target.examples)
  THEN merge("mediaType", modelConfig, [examples |-> Get(target.examples)])
  ELSE modelConfig

MatchingModels(models, name) == SelectSeq(models, LAMBDA m : m.name = name)

RECURSIVE requestBodiesLoop(_, _, _)
requestBodiesLoop(requestBodies, documentationConfig, entries) ==
  IF Len(entries) = 0 THEN Ok(requestBodies)
  ELSE IF ~Has(config.models) THEN Raise("TypeError")
  ELSE
    LET requestModelType == Head(entries)[1]
        modelName == Head(entries)[2]
        found == MatchingModels(Get(config.models), modelName)
    IN  IF Len(found) = 0
        THEN requestBodiesLoop(requestBodies, documentationConfig, Tail(entries))
        ELSE
          LET requestModel == found[Len(found)]   \* .filter(...).pop()
              reqModelConfig ==
                attachExamples(requestModel, [schema |-> [ref |-> SchemaRef(modelName)]])
              reqBodyConfig ==
                (IF Has(documentationConfig.requestBody)
                    /\ Has(Get(documentationConfig.requestBody).description)
                 THEN "description" :> Get(Get(documentationConfig.requestBody).description)
                 ELSE EmptyObj)
                @@ [content |-> (requestModelType :> reqModelConfig)]
          IN  requestBodiesLoop(merge("requestBody", requestBodies, reqBodyConfig),
                                documentationConfig, Tail(entries))

getRequestBodiesFromConfig(documentationConfig) ==
  IF ~Has(documentationConfig.requestModels)
  THEN Raise("Error")
  ELSE requestBodiesLoop(EmptyObj, documentationConfig,
                         Get(documentationConfig.requestModels))

RECURSIVE responseContentLoop(_, _)
responseContentLoop(content, entries) ==
  IF Len(entries) = 0 THEN Ok(content)
  ELSE IF ~Has(config.models) THEN Raise("TypeError")
  ELSE
    LET responseKey == Head(entries)[1]
        modelName == Head(entries)[2]
        found == MatchingModels(Get(config.models), modelName)
    IN  IF Len(found) = 0
        THEN responseContentLoop(content, Tail(entries))
        ELSE
          LET responseModel == found[1]           \* .find(...)
              resModelConfig ==
                attachExamples(responseModel, [schema |-> [ref |-> SchemaRef(modelName)]])
          IN  responseContentLoop(merge("content", content, responseKey :> resModelConfig),
                                  Tail(entries))

\* Object.keys(response) throws on an undefined map
getResponseContent(response) ==
  IF ~Has(response) THEN Raise("TypeError")
  ELSE responseContentLoop(EmptyObj, Get(response))

RECURSIVE responseHeadersLoop(_, _)
responseHeadersLoop(headers, responseHeaders) ==
  IF Len(responseHeaders) = 0 THEN headers
  ELSE
    LET header == Head(responseHeaders)
        entry ==
          (IF Has(header.schema)
           THEN "schema" :> cleanSchema(Get(header.schema)) ELSE EmptyObj)
          @@ [description |-> IF Has(header.description)
                              THEN <<Get(header.description)>>
                              ELSE <<header.name, " header">>]
    IN  responseHeadersLoop((header.name :> entry) @@ headers, Tail(responseHeaders))

RECURSIVE responsesLoop(_, _)
responsesLoop(responses, methodResponses) ==
  IF Len(methodResponses) = 0 THEN Ok(responses)
  ELSE
    LET response == Head(methodResponses)
        content == getResponseContent(response.responseModels)
    IN  IF content.raised # "none" THEN content
        ELSE
          LET methodResponseConfig ==
                (IF Has(response.responseHeaders)
                 THEN "headers" :> responseHeadersLoop(EmptyObj, Get(response.responseHeaders))
                 ELSE EmptyObj)
                @@ [description |->
                      IF Has(response.responseBody)
                         /\ Has(Get(response.responseBody).description)
                      THEN <<Get(Get(response.responseBody).description)>>
                      ELSE <<"Status ", response.statusCode, " Response">>,
                    content |-> content.value]
          IN  responsesLoop(
                merge("responses", responses, response.statusCode :> methodResponseConfig),
                Tail(methodResponses))

getResponsesFromConfig(documentationConfig) ==
  IF Has(documentationConfig.methodResponses)
  THEN responsesLoop(EmptyObj, Get(documentationConfig.methodResponses))
  ELSE Ok(EmptyObj)

-----------------------------------------------------------------------------
(* getOperationFromConfig                                                  *)

\* {[name]: []}: one security requirement
securityRequirement(name) == name :> <<>>

\* typeof authorizer === 'string' ? authorizer : authorizer?.name
\* (None is undefined: an authorizer object that has no name)
authorizerNameOf(authorizer) == authorizer.name

\* lines 164-173: None, or Some of the security array the authorizer selects
authorizerSecurity(eventConfig) ==
  IF Has(eventConfig.authorizer) /\ Has(config.security)
  THEN LET authorizerName == authorizerNameOf(Get(eventConfig.authorizer))
           found == SelectSeq(Get(config.security),
                              LAMBDA s : s.authorizerName = authorizerName)
       IN  IF Len(found) > 0
           THEN Some(<<securityRequirement(found[1].name)>>)    \* .find(...)
           ELSE None
  ELSE None

Range(seq) == {seq[i] : i \in 1..Len(seq)}

\* lines 175-180: the security array the documentation's security list selects
documentationSecurity(documentationConfig) ==
  IF ~Has(documentationConfig.security) THEN Ok(None)
  ELSE IF ~Has(config.security) THEN Raise("TypeError")
  ELSE LET names == Range(Get(documentationConfig.security))
           securities == SelectSeq(Get(config.security), LAMBDA s : s.name \in names)
       IN  IF Len(securities) > 0
           THEN Ok(Some([i \in 1..Len(securities) |->
                           securityRequirement(securities[i].name)]))
           ELSE Ok(None)

\* lines 140-154: summary, description, tags, deprecated, each only when given
operationMetadata(documentationConfig) ==
  (IF Has(documentationConfig.summary)
   THEN "summary" :> Get(documentationConfig.summary) ELSE EmptyObj)
  @@ (IF Has(documentationConfig.description)
      THEN "description" :> Get(documentationConfig.description) ELSE EmptyObj)
  @@ (IF Has(documentationConfig.tags)
      THEN "tags" :> Get(documentationConfig.tags) ELSE EmptyObj)
  @@ (IF Truthy(documentationConfig.deprecated)
      THEN "deprecated" :> TRUE ELSE EmptyObj)

getOperationFromConfig(funcName, eventConfig) ==
  LET documentationConfig == Get(eventConfig.documentation)
      requestBody ==
        IF Has(documentationConfig.requestModels)
        THEN getRequestBodiesFromConfig(documentationConfig)
        ELSE Ok(EmptyObj)
      parameters == getParametersFromConfig(documentationConfig)
      responses == getResponsesFromConfig(documentationConfig)
      fromAuthorizer == authorizerSecurity(eventConfig)
      fromDocumentation == documentationSecurity(documentationConfig)
      security ==
        IF Has(fromDocumentation.value) THEN fromDocumentation.value
        ELSE fromAuthorizer
  IN  IF requestBody.raised # "none" THEN Raise(requestBody.raised)
      ELSE IF responses.raised # "none" THEN Raise(responses.raised)
      ELSE IF fromDocumentation.raised # "none" THEN Raise(fromDocumentation.raised)
      ELSE Ok(
        (IF Has(security) THEN "security" :> Get(security) ELSE EmptyObj)
        @@ (IF Has(documentationConfig.requestModels)
            THEN "requestBody" :> requestBody.value ELSE EmptyObj)
        @@ operationMetadata(documentationConfig)
        @@ [operationId |-> funcName,
            parameters |-> parameters,
            responses |-> responses.value])

-----------------------------------------------------------------------------
(* parse                                                                   *)

OpenApiVersion == "3.0.0"

\* the strings uuid.v4() may return
Uuids == {"uuid-1", "uuid-2"}

\* TJS.generateSchema(program, typeName, {noExtraProps, required}): the
\* derived schema of a source type; the deriver stamps it with $schema.
generateSchema(tsSchema) ==
  ("$schema" :> "http://json-schema.org/draft-07/schema#")
  @@ [type |-> "object", additionalProperties |-> FALSE]

\* dereference (@jdw/jst): inlines the schema's internal $refs.  The schemas
\* of this model hold none, and such a schema is returned as it is.
dereference(schema) == schema

RECURSIVE reduceSecuritySchemes(_, _)
reduceSecuritySchemes(result, security) ==
  IF Len(security) = 0 THEN result
  ELSE LET s == Head(security)
       IN  reduceSecuritySchemes((s.name :> [name |-> s.name, type |-> s.type]) @@ result,
                                 Tail(security))

\* lines 60-75: [schemas, models] after the loop has visited `rest`;
\* `seen` are the visited models as the loop left them.
RECURSIVE resolveModels(_, _, _)
resolveModels(schemas, seen, rest) ==
  IF Len(rest) = 0 THEN [schemas |-> schemas, models |-> seen]
  ELSE
    LET model == Head(rest)
    IN  IF ~Has(model.schema) /\ ~Has(model.tsSchema)
        THEN resolveModels(schemas, Append(seen, model), Tail(rest))
        ELSE
          LET resolved ==
                IF Has(model.tsSchema)
                THEN [model EXCEPT !.schema = Some(generateSchema(Get(model.tsSchema))),
                                   !.tsSchema = None]
                ELSE model
          IN  resolveModels(
                (model.name :> cleanSchema(dereference(Get(resolved.schema)))) @@ schemas,
                Append(seen, resolved), Tail(rest))

\* parse() is called once, before readFunctions (the protocol of the class)
Parse ==
  /\ pc = "constructed"
  /\ \E uuid \in (IF Has(config.version) THEN {Get(config.version)} ELSE Uuids) :
       LET security == IF Has(config.security) THEN Get(config.security) ELSE <<>>
           seeded ==
             merge("definition", definition,
               [openapi |-> OpenApiVersion,
                info |-> [title |-> IF Has(config.title) THEN Get(config.title) ELSE "",
                          description |-> IF Has(config.description)
                                          THEN Get(config.description) ELSE "",
                          version |-> uuid],
                servers |-> IF Has(config.servers) THEN Get(config.servers) ELSE <<>>,
                paths |-> EmptyObj,
                components |-> [schemas |-> EmptyObj,
                                securitySchemes |->
                                  reduceSecuritySchemes(EmptyObj, security)]])
           resolved == IF Has(config.models)    \* isIterable(models)
                       THEN resolveModels(EmptyObj, <<>>, Get(config.models))
                       ELSE [schemas |-> EmptyObj, models |-> <<>>]
       IN  /\ definition' = [seeded EXCEPT !.components.schemas = resolved.schemas]
           /\ config' = IF Has(config.models)
                        THEN [config EXCEPT !.models = Some(resolved.models)]
                        ELSE config
  /\ pc' = "parsed"
  /\ UNCHANGED <<nread, last>>

-----------------------------------------------------------------------------
(* readFunctions                                                           *)

UpperCase == <<"A", "B", "C", "D", "E", "F", "G", "H", "I", "J", "K", "L", "M",
               "N", "O", "P", "Q", "R", "S", "T", "U", "V", "W", "X", "Y", "Z">>
LowerCase == <<"a", "b", "c", "d", "e", "f", "g", "h", "i", "j", "k", "l", "m",
               "n", "o", "p", "q", "r", "s", "t", "u", "v", "w", "x", "y", "z">>

\* String.prototype.toLowerCase, one character at a time
toLowerCase(str) ==
  [i \in 1..Len(str) |->
     IF \E j \in 1..Len(UpperCase) : UpperCase[j] = str[i]
     THEN LowerCase[CHOOSE j \in 1..Len(UpperCase) : UpperCase[j] = str[i]]
     ELSE str[i]]

\* String.prototype.startsWith('/')
startsWithSlash(str) == Len(str) > 0 /\ str[1] = "/"

\* normalizedPath without its test: the slash is prepended to every path
slashPrepended(path) == <<"/">> \o path

\* line 93: path.startsWith('/') ? path : `/${path}`
normalizedPath(path) == IF startsWithSlash(path) THEN path ELSE <<"/">> \o path

\* line 96: method.toLowerCase()
methodKey(method) == toLowerCase(method)

\* getHttpEvents: the events that carry an http or an httpApi block
isHttpEvent(event) == Has(event.http) \/ Has(event.httpApi)

\* line 89: httpEvent.http ?? httpEvent.httpApi
httpEventConfigOf(event) ==
  IF Has(event.http) THEN Get(event.http) ELSE Get(event.httpApi)

\* mergePathConfig by shallow assignment: the path item replaces the one
\* stored under the path
assignPathItem(paths, path, method, operation) ==
  (path :> (method :> operation)) @@ paths

\* mergePathConfig by assignment of the operation: the later operation
\* replaces the one stored under the (path, method)
assignOperation(paths, path, method, operation) ==
  IF path \in DOMAIN paths
  THEN [paths EXCEPT ![path] = (method :> operation) @@ paths[path]]
  ELSE (path :> (method :> operation)) @@ paths

\* lines 94-104: merge(this.definition.paths, {[path]: {[method]: operation}})
mergePathConfig(paths, path, method, operation) ==
  merge("paths", paths, path :> (method :> operation))

BeginReadFunctions ==
  /\ pc = "parsed"
  /\ pc' = "reading"
  /\ UNCHANGED <<config, definition, nread, last>>

\* One iteration of the loops of readFunctions: the next event of the
\* function list, of function functionName.  The list is chosen as the loop
\* goes: events holds the events it may contain, max bounds how many are
\* visited in a behaviour.
ReadEvent(functionNames, events, max) ==
  /\ pc = "reading"
  /\ nread < max
  /\ \E functionName \in functionNames, event \in events :
       LET documented ==
             isHttpEvent(event) /\ Has(httpEventConfigOf(event).documentation)
           httpEventConfig == httpEventConfigOf(event)
           documentation == Get(httpEventConfig.documentation)
           result ==
             IF documented
             THEN getOperationFromConfig(
                    IF Has(documentation.operationId)
                    THEN Get(documentation.operationId) ELSE functionName,
                    httpEventConfig)
             ELSE Ok(EmptyObj)
       IN  /\ last' = Some([functionName |-> functionName, event |-> event,
                            documented |-> documented, result |-> result])
           /\ IF documented /\ result.raised = "none"
              THEN /\ definition' =
                        [definition EXCEPT !.paths =
                           mergePathConfig(@, normalizedPath(httpEventConfig.path),
                                           methodKey(httpEventConfig.method),
                                           result.value)]
                   /\ pc' = pc
              ELSE /\ definition' = definition
                   /\ pc' = IF result.raised = "none" THEN pc ELSE "raised"
  /\ nread' = nread + 1
  /\ UNCHANGED config

EndReadFunctions ==
  /\ pc = "reading"
  /\ pc' = "parsed"
  /\ UNCHANGED <<config, definition, nread, last>>

-----------------------------------------------------------------------------
(* Inputs: the definition configs and the events the behaviours draw from  *)

MaxEvents == 2    \* events visited in one behaviour of Spec
MaxParams == 1    \* parameter declarations in one parameter block

\* security definitions: two share the authorizer authA, one links to none
Jwt == [name |-> "jwt", authorizerName |-> Some("authA"), type |-> "http"]
Key == [name |-> "key", authorizerName |-> None, type |-> "apiKey"]
OAuth == [name |-> "oauth", authorizerName |-> Some("authA"), type |-> "oauth2"]

LiteralSchema ==
  ("$schema" :> "http://json-schema.org/draft-04/schema#") @@ [type |-> "object"]

\* models: a literal schema, the same name again with examples, a source
\* type, and a model declared with neither schema
Pet == [name |-> "Pet", schema |-> Some(LiteralSchema), tsSchema |-> None,
        examples |-> None]
PetWithExamples == [name |-> "Pet", schema |-> Some([type |-> "object"]),
                    tsSchema |-> None, examples |-> Some([rex |-> "Rex"])]
Order == [name |-> "Order", schema |-> None,
          tsSchema |-> Some([filePath |-> "order.ts", typeName |-> "Order"]),
          examples |-> Some([first |-> "o1"])]
Bare == [name |-> "Bare", schema |-> None, tsSchema |-> None, examples |-> None]

ConfigOf(version, models, security) ==
  [title |-> Some("API"), description |-> None, version |-> version,
   servers |-> None, models |-> models, security |-> security]

\* the configs of Spec
Configs ==
  { ConfigOf(Some("1.0.0"), Some(<<Pet, Bare>>), Some(<<Jwt, Key>>)),
    ConfigOf(None, Some(<<Order, Pet, PetWithExamples>>), Some(<<Key, OAuth, Jwt>>)),
    ConfigOf(Some("1.0.0"), None, None) }

\* the configs of SpecOperation and SpecParameters
AllConfigs ==
  { ConfigOf(version, models, security) :
      version \in {Some("1.0.0")},
      models \in {None, Some(<<>>), Some(<<Pet, Bare>>),
                  Some(<<Order, Pet, PetWithExamples>>)},
      security \in {None, Some(<<>>), Some(<<Jwt, Key>>), Some(<<Key, OAuth, Jwt>>)} }

FunctionNames == {"listPets"}

NoDocumentation ==
  [operationId |-> None, summary |-> None, description |-> None, tags |-> None,
   deprecated |-> None, requestModels |-> None, requestBody |-> None,
   pathParams |-> None, queryParams |-> None, requestHeaders |-> None,
   cookieParams |-> None, methodResponses |-> None, security |-> None]

NoParameter ==
  [name |-> "id", description |-> None, required |-> None, allowEmptyValue |-> None,
   allowReserved |-> None, deprecated |-> None, style |-> None, explode |-> None,
   schema |-> None, examples |-> None, content |-> None]

ResponseOf(statusCode, responseBody, responseModels, responseHeaders) ==
  [statusCode |-> statusCode, responseBody |-> responseBody,
   responseModels |-> responseModels, responseHeaders |-> responseHeaders]

Json == "application/json"
Xml == "application/xml"

Ok200Pet == ResponseOf("200", None, Some(<<<<Json, "Pet">>>>), None)
Ok200Order ==
  ResponseOf("200", Some([description |-> Some("an order")]),
             Some(<<<<Xml, "Order">>>>),
             Some(<<[name |-> "X-Rate", description |-> None,
                     schema |-> Some(LiteralSchema)]>>))
NotFound404 == ResponseOf("404", Some([description |-> None]),
                          Some(<<<<Json, "Ghost">>>>), None)
NoModels200 == ResponseOf("200", None, None, None)

Authorizers ==
  { None,
    Some([isString |-> TRUE, name |-> Some("authA")]),     \* authorizer: authA
    Some([isString |-> FALSE, name |-> Some("authA")]),    \* authorizer: {name: authA}
    Some([isString |-> FALSE, name |-> None]),             \* authorizer: {arn: ...}
    Some([isString |-> TRUE, name |-> Some("authX")]) }    \* no definition links to it

EventConfigOf(path, method, authorizer, documentation) ==
  [path |-> path, method |-> method, authorizer |-> authorizer,
   documentation |-> documentation]

HttpEvent(eventConfig) == [http |-> Some(eventConfig), httpApi |-> None]
HttpApiEvent(eventConfig) == [http |-> None, httpApi |-> Some(eventConfig)]
OtherEvent == [http |-> None, httpApi |-> None]    \* an sqs, schedule, ... event

Get_ == <<"G", "E", "T">>
get_ == <<"g", "e", "t">>
Post_ == <<"P", "o", "s", "t">>

\* the <<path, method>> of the events of Spec
PathsAndMethods ==
  { <<<<"p">>, Get_>>, <<<<"/", "p">>, get_>>, <<<<"/", "p">>, Post_>>,
    <<<<"/", "q">>, Get_>>, <<<<"/", "/", "p">>, Post_>>, <<<<>>, get_>> }

\* the documentation blocks of the events of Spec
Documentations ==
  { NoDocumentation,
    [NoDocumentation EXCEPT
       !.operationId = Some("getPet"), !.summary = Some("one pet"),
       !.description = Some("returns a pet"), !.tags = Some(<<"pets">>),
       !.deprecated = Some(TRUE), !.requestModels = Some(<<<<Json, "Pet">>>>),
       !.requestBody = Some([description |-> Some("the pet")]),
       !.pathParams = Some(<<[NoParameter EXCEPT !.required = Some(FALSE)]>>),
       !.methodResponses = Some(<<Ok200Pet>>), !.security = Some(<<"jwt">>)],
    [NoDocumentation EXCEPT
       !.summary = Some("other"), !.deprecated = Some(FALSE),
       !.requestModels = Some(<<<<Xml, "Order">>, <<Json, "Ghost">>>>),
       !.queryParams = Some(<<[NoParameter EXCEPT !.style = Some("form")]>>),
       !.methodResponses = Some(<<NotFound404, Ok200Order>>),
       !.security = Some(<<"key", "nosuch">>)],
    [NoDocumentation EXCEPT
       !.requestModels = Some(<<>>),
       !.requestBody = Some([description |-> Some("nothing")]),
       !.methodResponses = Some(<<>>)],
    [NoDocumentation EXCEPT
       !.requestBody = Some([description |-> Some("no models")]),
       !.methodResponses = Some(<<NotFound404>>)],
    [NoDocumentation EXCEPT
       !.requestModels = Some(<<<<Json, "Bare">>>>),
       !.methodResponses = Some(<<NoModels200>>)] }

Events ==
  { HttpEvent(EventConfigOf(pm[1], pm[2], None, Some(doc))) :
      pm \in PathsAndMethods, doc \in Documentations }
  \cup
  { HttpApiEvent(EventConfigOf(pm[1], pm[2], Some([isString |-> TRUE, name |-> Some("authA")]),
                               Some(doc))) :
      pm \in {<<<<"/", "p">>, get_>>, <<<<"q">>, Get_>>}, doc \in Documentations }
  \cup
  { OtherEvent, HttpEvent(EventConfigOf(<<"/", "p">>, get_, None, None)) }

Init(configs) ==
  /\ config \in configs                  \* clone(config)
  /\ definition = [openapi |-> OpenApiVersion, components |-> EmptyObj]
  /\ pc = "constructed"
  /\ nread = 0
  /\ last = None

InitSpec == Init(Configs)

Next ==
  \/ Parse
  \/ BeginReadFunctions
  \/ ReadEvent(FunctionNames, Events, MaxEvents)
  \/ EndReadFunctions

Spec == InitSpec /\ [][Next]_vars

-----------------------------------------------------------------------------
(* SpecOperation: one event is read, its documentation drawn from every    *)
(* combination of request models, request body, method responses, security *)
(* list, metadata and authorizer.                                          *)

OperationDocumentations ==
  { [NoDocumentation EXCEPT
       !.summary = meta, !.tags = IF Has(meta) THEN Some(<<"pets">>) ELSE None,
       !.requestModels = requestModels, !.requestBody = requestBody,
       !.methodResponses = methodResponses, !.security = security] :
      meta \in {None, Some("one pet")},
      requestModels \in {None, Some(<<>>), Some(<<<<Json, "Pet">>>>),
                         Some(<<<<Json, "Bare">>>>),
                         Some(<<<<Json, "Ghost">>, <<Xml, "Pet">>>>)},
      requestBody \in {None, Some([description |-> None]),
                       Some([description |-> Some("the pet")])},
      methodResponses \in {None, Some(<<Ok200Pet>>), Some(<<NoModels200>>),
                           Some(<<NotFound404, Ok200Order>>)},
      security \in {None, Some(<<>>), Some(<<"jwt">>),
                    Some(<<"oauth", "nosuch", "key">>)} }

OperationEvents ==
  { HttpEvent(EventConfigOf(<<"p">>, Get_, authorizer, Some(doc))) :
      authorizer \in Authorizers, doc \in OperationDocumentations }
  \cup {OtherEvent}

InitOperation == Init(AllConfigs)

NextOperation ==
  \/ Parse
  \/ BeginReadFunctions
  \/ ReadEvent(FunctionNames, OperationEvents, 1)
  \/ EndReadFunctions

SpecOperation == InitOperation /\ [][NextOperation]_vars

-----------------------------------------------------------------------------
(* SpecParameters: one event is read, its parameter blocks drawn from the  *)
(* declarations below.  One location holds any block of up to MaxParams    *)
(* declarations; the other three hold together no block or a one-entry one.*)

ParameterDeclarations ==
  { [NoParameter EXCEPT
       !.required = required, !.style = style, !.explode = explode,
       !.description = IF rich THEN Some("the id") ELSE None,
       !.allowEmptyValue = IF rich THEN Some(TRUE) ELSE None,
       !.allowReserved = IF rich THEN Some(FALSE) ELSE None,
       !.deprecated = IF rich THEN Some(FALSE) ELSE None,
       !.schema = IF rich THEN Some(LiteralSchema) ELSE None,
       !.examples = IF rich THEN Some([isArray |-> TRUE, items |-> <<"1">>]) ELSE None] :
      required \in {None, Some(TRUE), Some(FALSE)},
      style \in {None, Some("form"), Some("simple")},
      explode \in {None, Some(TRUE), Some(FALSE)},
      rich \in BOOLEAN }

SeqsUpTo(S, n) == UNION {[1..k -> S] : k \in 0..n}

ParameterDocumentations ==
  { [NoDocumentation EXCEPT
       !.pathParams = IF type = "path" THEN Some(block) ELSE others,
       !.queryParams = IF type = "query" THEN Some(block) ELSE others,
       !.requestHeaders = IF type = "header" THEN Some(block) ELSE others,
       !.cookieParams = IF type = "cookie" THEN Some(block) ELSE others] :
      type \in Range(ParameterTypes),
      block \in SeqsUpTo(ParameterDeclarations, MaxParams),
      others \in {None, Some(<<[NoParameter EXCEPT !.name = "other"]>>)} }

ParameterEvents ==
  { HttpEvent(EventConfigOf(<<"p", "/", "i">>, Get_, None, Some(doc))) :
      doc \in ParameterDocumentations }
  \cup {OtherEvent}

NextParameters ==
  \/ Parse
  \/ BeginReadFunctions
  \/ ReadEvent(FunctionNames, ParameterEvents, 1)
  \/ EndReadFunctions

SpecParameters == InitSpec /\ [][NextParameters]_vars

-----------------------------------------------------------------------------
(* What the claims speak about                                             *)

\* the event visited last, its http/httpApi block and its documentation
Visited == Get(last)
VisitedConfig ==
  IF Has(Visited.event.http) THEN Get(Visited.event.http) ELSE Get(Visited.event.httpApi)
VisitedDoc == Get(VisitedConfig.documentation)

\* the last event carried documentation / and its operation was built
Documented == Has(last) /\ Visited.documented
Built == Documented /\ Visited.result.raised = "none"
BuiltOperation == Visited.result.value

Paths == definition.paths

\* the (path, method) pairs that hold an operation
Slots(paths) == UNION {{<<p, m>> : m \in DOMAIN paths[p]} : p \in DOMAIN paths}

\* the path key the claims expect for a documented path
ExpectedPath(path) ==
  IF Len(path) > 0 /\ Head(path) = "/" THEN path ELSE <<"/">> \o path

\* the method key the claims expect: the lower-cased spelling of the method
ExpectedMethod(method) ==
  CASE method = <<"G", "E", "T">> -> <<"g", "e", "t">>
    [] method = <<"g", "e", "t">> -> <<"g", "e", "t">>
    [] method = <<"P", "o", "s", "t">> -> <<"p", "o", "s", "t">>

IsLowerCase(str) == \A i \in 1..Len(str) : str[i] \notin Range(UpperCase)

\* the declared security definitions
Declared == IF Has(config.security) THEN Get(config.security) ELSE <<>>

\* the parameter declarations of a documentation block, each with its
\* location, in the order path, query, header, cookie
DeclaredIn(block, type) ==
  IF Has(block)
  THEN [i \in 1..Len(Get(block)) |-> [type |-> type, declaration |-> Get(block)[i]]]
  ELSE <<>>
DeclaredParameters(doc) ==
  DeclaredIn(doc.pathParams, "path") \o DeclaredIn(doc.queryParams, "query")
  \o DeclaredIn(doc.requestHeaders, "header") \o DeclaredIn(doc.cookieParams, "cookie")

\* the model names the $refs of a content map point to
RefNames(content) == {content[t].schema.ref[2] : t \in DOMAIN content}
OperationRefNames(operation) ==
  (IF "requestBody" \in DOMAIN operation /\ "content" \in DOMAIN operation.requestBody
   THEN RefNames(operation.requestBody.content) ELSE {})
  \cup UNION {RefNames(operation.responses[c].content) : c \in DOMAIN operation.responses}

-----------------------------------------------------------------------------
(* C1: a documentation block with requestBody set but no requestModels     *)
(* makes readFunctions raise, and no operation of that event reaches paths.*)
C1_RequestBodyWithoutModelsRaises ==
  (Documented /\ Has(VisitedDoc.requestBody) /\ ~Has(VisitedDoc.requestModels))
    => (Visited.result.raised # "none" /\ pc = "raised")

(* C2: per-operation security.  An authorizer (a string, or an object's    *)
(* name) equal to the authorizerName of a declared definition gives the    *)
(* one-entry array of that scheme; a documentation security list naming at *)
(* least one declared definition replaces it by one entry per matching     *)
(* definition; if neither rule matches the operation has no security field.*)
C2_AuthorizerLinks(s) ==
  /\ Has(VisitedConfig.authorizer)
  /\ Has(Get(VisitedConfig.authorizer).name)
  /\ Has(s.authorizerName)
  /\ Get(s.authorizerName) = Get(Get(VisitedConfig.authorizer).name)
C2_Listed ==
  IF Has(VisitedDoc.security)
  THEN SelectSeq(Declared, LAMBDA s : s.name \in Range(Get(VisitedDoc.security)))
  ELSE <<>>
\* C2: the security of every built operation is what the two rules give
C2_SecurityResolution ==
  Built =>
    IF Len(C2_Listed) > 0
    THEN /\ "security" \in DOMAIN BuiltOperation
         /\ BuiltOperation.security =
              [i \in 1..Len(C2_Listed) |-> (C2_Listed[i].name :> <<>>)]
    ELSE IF \E i \in 1..Len(Declared) : C2_AuthorizerLinks(Declared[i])
    THEN /\ "security" \in DOMAIN BuiltOperation
         /\ \E i \in 1..Len(Declared) :
              /\ C2_AuthorizerLinks(Declared[i])
              /\ BuiltOperation.security = <<(Declared[i].name :> <<>>)>>
    ELSE "security" \notin DOMAIN BuiltOperation

(* C3: a parameter that specifies style is emitted with the explode the    *)
(* input gives, an explicit false included, else with true exactly for     *)
(* style form; a parameter without style has no explode field.             *)
C3_ExplodeFollowsInput ==
  Built =>
    /\ Len(BuiltOperation.parameters) = Len(DeclaredParameters(VisitedDoc))
    /\ \A i \in 1..Len(BuiltOperation.parameters) :
         LET declaration == DeclaredParameters(VisitedDoc)[i].declaration
             emitted == BuiltOperation.parameters[i]
         IN  IF Has(declaration.style)
             THEN /\ "explode" \in DOMAIN emitted
                  /\ emitted.explode =
                       IF Has(declaration.explode) THEN Get(declaration.explode)
                       ELSE Get(declaration.style) = "form"
             ELSE "explode" \notin DOMAIN emitted

(* C4: readFunctions raises only for a documentation block with            *)
(* requestBody and no requestModels; any other input is read to the end.   *)
C4_OnlyRequestBodyRaises ==
  (Documented /\ Visited.result.raised # "none")
    => (Has(VisitedDoc.requestBody) /\ ~Has(VisitedDoc.requestModels))

(* C5: every $ref emitted in a request body or a response content names a  *)
(* key of components.schemas.                                              *)
C5_RefsResolve ==
  pc \in {"parsed", "reading", "raised"} =>
    \A pm \in Slots(Paths) :
      OperationRefNames(Paths[pm[1]][pm[2]]) \subseteq DOMAIN definition.components.schemas

(* C9: with requestModels present and a description on requestBody, the    *)
(* emitted requestBody carries that description, whatever the map holds.   *)
C9_DescriptionAttached ==
  (Built /\ Has(VisitedDoc.requestModels) /\ Has(VisitedDoc.requestBody)
         /\ Has(Get(VisitedDoc.requestBody).description))
    => /\ "requestBody" \in DOMAIN BuiltOperation
       /\ "description" \in DOMAIN BuiltOperation.requestBody
       /\ BuiltOperation.requestBody.description = Get(Get(VisitedDoc.requestBody).description)

-----------------------------------------------------------------------------
(* The claims about the path tree look at one step of readFunctions: the   *)
(* step that visits an event (nread grows), the event it visits (last'),   *)
(* and paths before and after.                                             *)

\* whether an event carries a documented http or httpApi block
CarriesDocumentation(event) ==
  \/ Has(event.http) /\ Has(Get(event.http).documentation)
  \/ ~Has(event.http) /\ Has(event.httpApi) /\ Has(Get(event.httpApi).documentation)

BlockOf(event) == IF Has(event.http) THEN Get(event.http) ELSE Get(event.httpApi)

ExpectedSlot(event) ==
  <<ExpectedPath(BlockOf(event).path), ExpectedMethod(BlockOf(event).method)>>

At(paths, slot) == paths[slot[1]][slot[2]]

\* the raw paths of the documented events of Spec
DocumentedPaths == {BlockOf(e).path : e \in {x \in Events : CarriesDocumentation(x)}}

(* C6: each documented http/httpApi event adds an operation at its         *)
(* (normalized path, lower-cased method); every operation stored under     *)
(* another pair is left as it was; paths holds exactly the pairs of the    *)
(* documented events read so far; an event without an http/httpApi block   *)
(* or without documentation (or whose reading raised) changes nothing.     *)
C6_MergeKeepsSiblings ==
  [][ /\ (pc = "constructed" /\ pc' = "parsed") => Slots(definition'.paths) = {}
      /\ (nread' = nread + 1) =>
           LET visited == Get(last')
               before == definition.paths
               after == definition'.paths
           IN  IF CarriesDocumentation(visited.event) /\ visited.result.raised = "none"
               THEN /\ Slots(after) = Slots(before) \cup {ExpectedSlot(visited.event)}
                    /\ \A slot \in Slots(before) \ {ExpectedSlot(visited.event)} :
                         At(after, slot) = At(before, slot)
               ELSE after = before
    ]_vars

\* two operations under one path, the second read after the first
C6_Witness ==
  /\ nread = 2
  /\ Built
  /\ \E p \in DOMAIN Paths : Cardinality(DOMAIN Paths[p]) = 2

(* C7: a path parameter is emitted with in = path and required = true      *)
(* whatever its declared required; a query, header or cookie parameter     *)
(* with its declared required, false when none is declared.                *)
C7_PathParametersRequired ==
  Built =>
    /\ Len(BuiltOperation.parameters) = Len(DeclaredParameters(VisitedDoc))
    /\ \A i \in 1..Len(BuiltOperation.parameters) :
         LET declared == DeclaredParameters(VisitedDoc)[i]
             emitted == BuiltOperation.parameters[i]
         IN  /\ emitted["in"] = declared.type
             /\ emitted.name = declared.declaration.name
             /\ emitted.required =
                  IF declared.type = "path" THEN TRUE
                  ELSE IF Has(declared.declaration.required)
                  THEN Get(declared.declaration.required)
                  ELSE FALSE

\* a path parameter declared required: false was emitted
C7_Witness ==
  /\ Built
  /\ Has(VisitedDoc.pathParams)
  /\ \E i \in 1..Len(Get(VisitedDoc.pathParams)) :
       /\ Get(VisitedDoc.pathParams)[i].required = Some(FALSE)
       /\ BuiltOperation.parameters[i]["in"] = "path"

(* C8: every key of paths begins with / and every method key is            *)
(* lower-case; a documented path without a leading / is emitted with one / *)
(* prepended and otherwise unchanged, one with a leading / verbatim.       *)
C8_PathAndMethodKeys ==
  pc \in {"parsed", "reading", "raised"} =>
    /\ \A p \in DOMAIN Paths :
         /\ Len(p) > 0 /\ p[1] = "/"
         /\ p \in {ExpectedPath(raw) : raw \in DocumentedPaths}
         /\ \A m \in DOMAIN Paths[p] : IsLowerCase(m)
    /\ Built =>
         LET raw == VisitedConfig.path
             key == IF Len(raw) > 0 /\ raw[1] = "/" THEN raw ELSE <<"/">> \o raw
         IN  /\ key \in DOMAIN Paths
             /\ ExpectedMethod(VisitedConfig.method) \in DOMAIN Paths[key]

\* an event documented at path p (no leading slash), method GET, was merged
C8_Witness ==
  /\ Built
  /\ VisitedConfig.path = <<"p">>
  /\ VisitedConfig.method = <<"G", "E", "T">>
  /\ <<"/", "p">> \in DOMAIN Paths
  /\ <<"g", "e", "t">> \in DOMAIN Paths[<<"/", "p">>]

(* C10: when a documented event resolves to a (path, method) that already  *)
(* holds an operation, the stored operation is the deep merge of the       *)
(* earlier one with the later one: operationId, parameters and the other   *)
(* scalar and array fields take the later value when the later event emits *)
(* them, responses are united by status code, and an optional field only   *)
(* the earlier event emitted is still there.                               *)
C10_LeafFields == {"summary", "description", "tags", "deprecated", "security"}

C10_Merged(old, new, merged) ==
  /\ merged.operationId = new.operationId
  /\ merged.parameters = new.parameters
  /\ \A f \in C10_LeafFields :
       IF f \in DOMAIN new THEN f \in DOMAIN merged /\ merged[f] = new[f]
       ELSE IF f \in DOMAIN old THEN f \in DOMAIN merged /\ merged[f] = old[f]
       ELSE f \notin DOMAIN merged
  /\ IF "requestBody" \in DOMAIN old /\ "requestBody" \in DOMAIN new
     THEN /\ "requestBody" \in DOMAIN merged
          /\ DOMAIN merged.requestBody =
               DOMAIN old.requestBody \cup DOMAIN new.requestBody
          /\ ("content" \in DOMAIN old.requestBody /\ "content" \in DOMAIN new.requestBody)
               => DOMAIN merged.requestBody.content =
                    DOMAIN old.requestBody.content \cup DOMAIN new.requestBody.content
          /\ "description" \in DOMAIN new.requestBody
               => merged.requestBody.description = new.requestBody.description
     ELSE IF "requestBody" \in DOMAIN new
     THEN "requestBody" \in DOMAIN merged /\ merged.requestBody = new.requestBody
     ELSE IF "requestBody" \in DOMAIN old
     THEN "requestBody" \in DOMAIN merged /\ merged.requestBody = old.requestBody
     ELSE "requestBody" \notin DOMAIN merged
  /\ DOMAIN merged.responses = DOMAIN old.responses \cup DOMAIN new.responses
  /\ \A c \in DOMAIN merged.responses :
       IF c \in DOMAIN old.responses /\ c \in DOMAIN new.responses
       THEN /\ merged.responses[c].description = new.responses[c].description
            /\ DOMAIN merged.responses[c].content =
                 DOMAIN old.responses[c].content \cup DOMAIN new.responses[c].content
            /\ "headers" \in DOMAIN old.responses[c]
                 => "headers" \in DOMAIN merged.responses[c]
       ELSE IF c \in DOMAIN new.responses
       THEN merged.responses[c] = new.responses[c]
       ELSE merged.responses[c] = old.responses[c]

\* C10: the operation stored in an occupied slot is the deep merge of the
\* stored operation with the one the event built
C10_SameSlotDeepMerge ==
  [][ (nread' = nread + 1) =>
        LET visited == Get(last')
            before == definition.paths
            after == definition'.paths
        IN  ( /\ CarriesDocumentation(visited.event)
              /\ visited.result.raised = "none"
              /\ ExpectedSlot(visited.event) \in Slots(before) )
            => C10_Merged(At(before, ExpectedSlot(visited.event)),
                          visited.result.value,
                          At(after, ExpectedSlot(visited.event)))
    ]_vars

\* the second event of a slot emitted no summary and another status code:
\* the stored operation has the first event's summary and both responses
C10_Witness ==
  /\ nread = 2
  /\ Built
  /\ "summary" \notin DOMAIN BuiltOperation
  /\ "summary" \in DOMAIN At(Paths, ExpectedSlot(Visited.event))
  /\ Cardinality(DOMAIN At(Paths, ExpectedSlot(Visited.event)).responses) = 2
  /\ Cardinality(DOMAIN BuiltOperation.responses) = 1

====
